---- MODULE Spec2Model ----
(***************************************************************************)
(* The shopping cart of shubhamRAJ0808/Shoping_cart: the ShoppingCart      *)
(* class of src/Shoping_cart_System.py (console shell, "cli") and of       *)
(* src/shoppingcart.py (desktop shell, "gui"), with the Product and        *)
(* CartItem classes both files share, the three files the class persists   *)
(* to, and the checkout branch of each shell.                              *)
(*                                                                         *)
(* Python dicts keep insertion order, and the files are written in that    *)
(* order, so a dict is a sequence of entries with distinct product_id.     *)
(* A CartItem holds a reference to the Product object of the catalog; the  *)
(* reference is the product_id, since the cart is always loaded from the   *)
(* catalog that is current.  Prices are whole currency units.              *)
(***************************************************************************)
EXTENDS Integers, Sequences, FiniteSets, TLC

VARIABLES
    impl,          \* "cli": Shoping_cart_System.py, "gui": shoppingcart.py
    alive,         \* FALSE when ShoppingCart.__init__ raised: there is no object
    catalog,       \* self._product_catalog: sequence of Product objects
    items,         \* self._items: sequence of CartItem objects
    catFile,       \* the product catalog file
    cartFile,      \* the cart state file
    logFile,       \* the transaction log file
    last,          \* the last call: its name, arguments and outcome (for the
                   \* constructor, also how it found the two JSON files)
    at_load        \* history: available + reserved per product right after load

vars == <<impl, alive, catalog, items, catFile, cartFile, logFile, last, at_load>>

(***************************************************************************)
(* Bounds of the model.                                                    *)
(***************************************************************************)
MaxStock == 2      \* largest quantity_available a catalog file of Init holds
MaxQty == 3        \* largest quantity argument of a call
MaxLog == 2        \* a session appends no record to a log that holds this many

ProductIds == {"001A", "002A"}
UnknownId == "404X"
Ids == ProductIds \cup {UnknownId}
Quantities == (-1) .. MaxQty

Max(a, b) == IF a >= b THEN a ELSE b

(***************************************************************************)
(* Ordered dicts keyed by product_id.                                      *)
(***************************************************************************)
Keys(d) == {d[i].product_id : i \in DOMAIN d}
Get(d, k) == d[CHOOSE i \in DOMAIN d : d[i].product_id = k]
DictSet(d, k, v) ==
    IF k \in Keys(d)
    THEN [i \in DOMAIN d |-> IF d[i].product_id = k THEN v ELSE d[i]]
    ELSE Append(d, v)
DictDel(d, k) == SelectSeq(d, LAMBDA e : e.product_id # k)

(***************************************************************************)
(* Product, PhysicalProduct, DigitalProduct.                               *)
(***************************************************************************)
Product(product_id, name, price, quantity_available) ==
    [cls |-> "Product", product_id |-> product_id, name |-> name, price |-> price,
     quantity_available |-> Max(0, quantity_available)]

\* A faulty variant of PhysicalProduct: the quantity is taken as it comes.
PhysicalProduct_unclamped(product_id, name, price, quantity_available, weight) ==
    [cls |-> "PhysicalProduct", product_id |-> product_id, name |-> name,
     price |-> price, quantity_available |-> quantity_available,
     weight |-> weight]

PhysicalProduct(product_id, name, price, quantity_available, weight) ==
    [cls |-> "PhysicalProduct", product_id |-> product_id, name |-> name,
     price |-> price, quantity_available |-> Max(0, quantity_available),
     weight |-> weight]

DigitalProduct(product_id, name, price, quantity_available, download_link) ==
    [cls |-> "DigitalProduct", product_id |-> product_id, name |-> name,
     price |-> price, quantity_available |-> Max(0, quantity_available),
     download_link |-> download_link]

\* Faulty variants of decrease_quantity: one answers without taking the stock,
\* one takes a single unit whatever the amount.
decrease_quantity_keeps(product, amount) ==
    [ok |-> amount > 0 /\ product.quantity_available >= amount, product |-> product]

decrease_quantity_one(product, amount) ==
    IF amount <= 0 THEN [ok |-> FALSE, product |-> product]
    ELSE IF product.quantity_available < amount THEN [ok |-> FALSE, product |-> product]
    ELSE [ok |-> TRUE,
          product |-> [product EXCEPT !.quantity_available = @ - 1]]

\* Product.decrease_quantity: the product afterwards and the value returned.
decrease_quantity(product, amount) ==
    IF amount <= 0 THEN [ok |-> FALSE, product |-> product]
    ELSE IF product.quantity_available < amount THEN [ok |-> FALSE, product |-> product]
    ELSE [ok |-> TRUE,
          product |-> [product EXCEPT !.quantity_available = @ - amount]]

\* A faulty variant of increase_quantity: a single unit whatever the amount.
increase_quantity_one(product, amount) ==
    IF amount <= 0 THEN [raised |-> TRUE, product |-> product]
    ELSE [raised |-> FALSE,
          product |-> [product EXCEPT !.quantity_available = @ + 1]]

\* Product.increase_quantity: raises ValueError unless amount > 0.
increase_quantity(product, amount) ==
    IF amount <= 0 THEN [raised |-> TRUE, product |-> product]
    ELSE [raised |-> FALSE,
          product |-> [product EXCEPT !.quantity_available = @ + amount]]

\* Product.to_dict and its overrides: the JSON object of a product.
to_dict(product) ==
    LET base == [type |-> "generic", product_id |-> product.product_id,
                 name |-> product.name, price |-> product.price,
                 quantity_available |-> product.quantity_available]
    IN  CASE product.cls = "PhysicalProduct" ->
               [type |-> "physical", product_id |-> base.product_id,
                name |-> base.name, price |-> base.price,
                quantity_available |-> base.quantity_available,
                weight |-> product.weight]
          [] product.cls = "DigitalProduct" ->
               [type |-> "digital", product_id |-> base.product_id,
                name |-> base.name, price |-> base.price,
                quantity_available |-> base.quantity_available,
                download_link |-> product.download_link]
          [] OTHER -> base

\* Product.from_dict with the two from_dict overrides: a missing key is a
\* KeyError, a missing or unrecognised type gives a plain Product.
BaseKeys == {"product_id", "name", "price", "quantity_available"}
from_dict(data) ==
    LET ptype == IF "type" \in DOMAIN data THEN data.type ELSE "generic"
    IN  CASE ptype = "physical" ->
               IF (BaseKeys \cup {"weight"}) \subseteq DOMAIN data
               THEN [raised |-> FALSE,
                     product |-> PhysicalProduct(data.product_id, data.name, data.price,
                                                 data.quantity_available, data.weight)]
               ELSE [raised |-> TRUE]
          [] ptype = "digital" ->
               IF (BaseKeys \cup {"download_link"}) \subseteq DOMAIN data
               THEN [raised |-> FALSE,
                     product |-> DigitalProduct(data.product_id, data.name, data.price,
                                                data.quantity_available,
                                                data.download_link)]
               ELSE [raised |-> TRUE]
          [] OTHER ->
               IF BaseKeys \subseteq DOMAIN data
               THEN [raised |-> FALSE,
                     product |-> Product(data.product_id, data.name, data.price,
                                         data.quantity_available)]
               ELSE [raised |-> TRUE]

(***************************************************************************)
(* CartItem.                                                               *)
(***************************************************************************)
CartItem(product_id, quantity) ==
    [product_id |-> product_id, quantity |-> Max(0, quantity)]

\* A faulty variant of calculate_subtotal: the price of one unit.
calculate_subtotal_unit(d, item) == Get(d, item.product_id).price

\* CartItem.calculate_subtotal: the product is looked up in the catalog d.
calculate_subtotal(d, item) == Get(d, item.product_id).price * item.quantity

\* A faulty variant of CartItem.to_dict: the quantity is not written out.
item_to_dict_unit(item) == [product_id |-> item.product_id, quantity |-> 1]

\* CartItem.to_dict
item_to_dict(item) == [product_id |-> item.product_id, quantity |-> item.quantity]

(***************************************************************************)
(* The three files.  A JSON file is missing, unparsable ("corrupt") or a   *)
(* list of objects; the log is a file that may not exist, with or without  *)
(* its header row, and its data rows.                                      *)
(***************************************************************************)
MissingFile == [state |-> "missing", data |-> <<>>]
CorruptFile == [state |-> "corrupt", data |-> <<>>]
JsonFile(data) == [state |-> "ok", data |-> data]

MissingLog == [exists |-> FALSE, header |-> FALSE, rows |-> <<>>]
EmptyLog == [exists |-> TRUE, header |-> FALSE, rows |-> <<>>]

\* ShoppingCart._initialize_files: a file that does not exist is created, the
\* JSON files as the empty list and the log with its header row.
_initialize_files(cf, kf, lf) ==
    [catFile |-> IF cf.state = "missing" THEN JsonFile(<<>>) ELSE cf,
     cartFile |-> IF kf.state = "missing" THEN JsonFile(<<>>) ELSE kf,
     logFile |-> IF ~lf.exists
                 THEN [exists |-> TRUE, header |-> TRUE, rows |-> <<>>]
                 ELSE lf]

\* A faulty variant of _init_transaction_log: the file is opened for writing
\* and given the header whatever it holds.
_init_transaction_log_always(lf) ==
    [exists |-> TRUE, header |-> TRUE, rows |-> <<>>]

\* ShoppingCart._init_transaction_log: an existing log of size 0 gets the header.
_init_transaction_log(lf) ==
    IF lf.exists /\ ~lf.header /\ lf.rows = <<>>
    THEN [exists |-> TRUE, header |-> TRUE, rows |-> <<>>]
    ELSE lf

\* A faulty variant of _log_transaction: the row is written twice.
_log_transaction_twice(lf, action, product_id, product_name, quantity, details) ==
    LET row == [action |-> action, product_id |-> product_id,
                product_name |-> product_name, quantity |-> quantity,
                details |-> details]
    IN  [exists |-> TRUE, header |-> lf.header,
         rows |-> Append(Append(lf.rows, row), row)]

\* ShoppingCart._log_transaction: one row appended (the file is created when it
\* does not exist).  The timestamp column is the wall clock's and is left out.
_log_transaction(lf, action, product_id, product_name, quantity, details) ==
    [exists |-> TRUE, header |-> lf.header,
     rows |-> Append(lf.rows,
                     [action |-> action, product_id |-> product_id,
                      product_name |-> product_name, quantity |-> quantity,
                      details |-> details])]

\* The details column: the empty string, or "Previous quantity: <n>".
NoDetails == <<>>
\* A faulty variant of the detail: it names the quantity after the previous one.
PreviousQuantity_after(n) == <<"Previous quantity: ", n + 1>>
PreviousQuantity(n) == <<"Previous quantity: ", n>>

\* The loop of _load_catalog over the file's objects, console shell: the first
\* object from_dict cannot read raises KeyError out of the loop.
RECURSIVE load_products_cli(_, _)
load_products_cli(data, acc) ==
    IF data = <<>> THEN [raised |-> FALSE, catalog |-> acc]
    ELSE LET r == from_dict(Head(data))
         IN  IF r.raised THEN [raised |-> TRUE, catalog |-> acc]
             ELSE load_products_cli(Tail(data),
                                    DictSet(acc, r.product.product_id, r.product))

\* The same loop in the desktop shell: an object from_dict cannot read is skipped.
RECURSIVE load_products_gui(_, _)
load_products_gui(data, acc) ==
    IF data = <<>> THEN [raised |-> FALSE, catalog |-> acc]
    ELSE LET r == from_dict(Head(data))
         IN  IF r.raised THEN load_products_gui(Tail(data), acc)
             ELSE load_products_gui(Tail(data),
                                    DictSet(acc, r.product.product_id, r.product))

\* ShoppingCart._load_catalog, console shell: a missing or unparsable file gives
\* the empty catalog; a KeyError is not caught and leaves the constructor.
_load_catalog_cli(cf) ==
    IF cf.state # "ok" THEN [raised |-> FALSE, catalog |-> <<>>]
    ELSE load_products_cli(cf.data, <<>>)

\* ShoppingCart._load_catalog, desktop shell.
_load_catalog_gui(cf) ==
    IF cf.state # "ok" THEN [raised |-> FALSE, catalog |-> <<>>]
    ELSE load_products_gui(cf.data, <<>>)

CartKeys == {"product_id", "quantity"}

\* A faulty variant of the loop below: a pair is loaded whether or not its
\* product is in the catalog.
RECURSIVE load_items_cli_any(_, _, _)
load_items_cli_any(data, d, acc) ==
    IF data = <<>> THEN [raised |-> FALSE, items |-> acc]
    ELSE LET item == Head(data)
         IN  IF ~(CartKeys \subseteq DOMAIN item) THEN [raised |-> TRUE, items |-> acc]
             ELSE load_items_cli_any(Tail(data), d,
                                     DictSet(acc, item.product_id,
                                             CartItem(item.product_id, item.quantity)))

\* The loop of _load_cart_state, console shell: KeyError leaves the loop.
RECURSIVE load_items_cli(_, _, _)
load_items_cli(data, d, acc) ==
    IF data = <<>> THEN [raised |-> FALSE, items |-> acc]
    ELSE LET item == Head(data)
         IN  IF ~(CartKeys \subseteq DOMAIN item) THEN [raised |-> TRUE, items |-> acc]
             ELSE IF item.product_id \in Keys(d)
                  THEN load_items_cli(Tail(data), d,
                                      DictSet(acc, item.product_id,
                                              CartItem(item.product_id, item.quantity)))
                  ELSE load_items_cli(Tail(data), d, acc)

\* The same loop in the desktop shell: an object lacking a key is skipped.
RECURSIVE load_items_gui(_, _, _)
load_items_gui(data, d, acc) ==
    IF data = <<>> THEN [raised |-> FALSE, items |-> acc]
    ELSE LET item == Head(data)
         IN  IF ~(CartKeys \subseteq DOMAIN item) THEN load_items_gui(Tail(data), d, acc)
             ELSE IF item.product_id \in Keys(d)
                  THEN load_items_gui(Tail(data), d,
                                      DictSet(acc, item.product_id,
                                              CartItem(item.product_id, item.quantity)))
                  ELSE load_items_gui(Tail(data), d, acc)

\* ShoppingCart._load_cart_state, console shell: a missing or unparsable file, or
\* a KeyError anywhere in the list, gives the empty cart.
_load_cart_state_cli(kf, d) ==
    IF kf.state # "ok" THEN <<>>
    ELSE LET r == load_items_cli(kf.data, d, <<>>)
         IN  IF r.raised THEN <<>> ELSE r.items

\* ShoppingCart._load_cart_state, desktop shell.
_load_cart_state_gui(kf, d) ==
    IF kf.state # "ok" THEN <<>> ELSE load_items_gui(kf.data, d, <<>>).items

\* ShoppingCart._save_catalog and _save_cart_state: the whole file is rewritten.
_save_catalog(d) == JsonFile([i \in DOMAIN d |-> to_dict(d[i])])
_save_cart_state(its) == JsonFile([i \in DOMAIN its |-> item_to_dict(its[i])])

\* ShoppingCart.__init__ over the three files: the files afterwards, whether the
\* constructor raised, and the object's catalog and cart.
__init__(im, cf, kf, lf) ==
    LET f == _initialize_files(cf, kf, lf)
        c == IF im = "cli" THEN _load_catalog_cli(f.catFile)
             ELSE _load_catalog_gui(f.catFile)
        its == IF im = "cli" THEN _load_cart_state_cli(f.cartFile, c.catalog)
               ELSE _load_cart_state_gui(f.cartFile, c.catalog)
    IN  IF c.raised
        THEN [raised |-> TRUE, catalog |-> <<>>, items |-> <<>>,
              catFile |-> f.catFile, cartFile |-> f.cartFile, logFile |-> f.logFile]
        ELSE [raised |-> FALSE, catalog |-> c.catalog, items |-> its,
              catFile |-> f.catFile, cartFile |-> f.cartFile,
              logFile |-> _init_transaction_log(f.logFile)]

(***************************************************************************)
(* ShoppingCart.initialize_sample_catalog                                  *)
(***************************************************************************)
\* {p.product_id: p for p in products}: a repeated id keeps its first place
\* and its last product.
RECURSIVE by_product_id(_, _)
by_product_id(products, acc) ==
    IF products = <<>> THEN acc
    ELSE by_product_id(Tail(products),
                       DictSet(acc, Head(products).product_id, Head(products)))

sample_products_cli ==
    <<PhysicalProduct("001A", "Tata Salt 1kg", 28, 100, "1.0"),
      PhysicalProduct("002A", "Amul Butter 100g", 50, 50, "0.1"),
      PhysicalProduct("003A", "Parle-G Biscuits 100g", 10, 200, "0.1"),
      PhysicalProduct("004A", "Maggi Noodles 70g", 12, 150, "0.07"),
      PhysicalProduct("005A", "Dettol Soap 75g", 35, 80, "0.075"),
      DigitalProduct("006A", "Bollywood Movie - Sholay", 99, 1000,
                     "https://store.example.com/download/sholay"),
      DigitalProduct("007A", "Hindi Learning Course", 799, 500,
                     "https://courses.example.com/hindi-basic"),
      DigitalProduct("007A", "Indian Classical Music Collection", 249, 300,
                     "https://music.example.com/classical-indian"),
      DigitalProduct("009A", "Yoga for Beginners", 499, 200,
                     "https://fitness.example.com/yoga-course")>>

sample_products_gui ==
    <<PhysicalProduct("001A", "Tata Salt 1kg", 28, 100, "1.0"),
      PhysicalProduct("002A", "Amul Butter 100g", 50, 50, "0.1"),
      DigitalProduct("006A", "Bollywood Movie - Sholay", 99, 1000,
                     "https://store.example.com/download/sholay"),
      DigitalProduct("007A", "Hindi Learning Course", 799, 500,
                     "https://courses.example.com/hindi-basic")>>

\* initialize_sample_catalog on the object a constructor returned: an empty
\* catalog is replaced by the shell's sample products and saved.
initialize_sample_catalog(im, o) ==
    IF o.catalog # <<>> THEN o
    ELSE LET d == by_product_id(IF im = "cli" THEN sample_products_cli
                                ELSE sample_products_gui, <<>>)
         IN  [o EXCEPT !.catalog = d, !.catFile = _save_catalog(d)]

\* The start of a shell, main and ShoppingCartGUI.__init__: the constructor and,
\* when it returned, initialize_sample_catalog at once.
start(im, cf, kf, lf) ==
    LET o == __init__(im, cf, kf, lf)
    IN  IF o.raised THEN o ELSE initialize_sample_catalog(im, o)

(***************************************************************************)
(* The state at the first prompt of a shell.                               *)
(***************************************************************************)
\* Objects of catalog files: product 001A is priced 28, product 002A is free.
SaltDict(q) ==
    [type |-> "physical", product_id |-> "001A", name |-> "Tata Salt 1kg",
     price |-> 28, quantity_available |-> q, weight |-> "1.0"]
MovieDict(q) ==
    [type |-> "digital", product_id |-> "002A", name |-> "Sample Clip",
     price |-> 0, quantity_available |-> q, download_link |-> "https://store.example.com/clip"]
BookDict(q) ==
    [type |-> "book", product_id |-> "001A", name |-> "Salt Book",
     price |-> 3, quantity_available |-> q]
NoQuantityDict ==
    [type |-> "physical", product_id |-> "002A", name |-> "Amul Butter 100g",
     price |-> 50, weight |-> "0.1"]

Line(p, q) == [product_id |-> p, quantity |-> q]
NoQuantityLine(p) == [product_id |-> p]

\* The catalog file and the cart file a start may find.  Installations hold a
\* catalog the constructor loads a product from (or fails to load): files the
\* program wrote, and files with damaged, repeated or foreign objects.
Installations ==
    {<<JsonFile(<<SaltDict(MaxStock), MovieDict(1)>>), JsonFile(<<>>)>>,
     <<JsonFile(<<SaltDict(MaxStock), MovieDict(MaxStock)>>),
       JsonFile(<<Line("001A", 0), Line("002A", 1)>>)>>,
     <<JsonFile(<<MovieDict(MaxStock), SaltDict(1)>>),
       JsonFile(<<NoQuantityLine("002A"), Line("001A", 1)>>)>>,
     <<JsonFile(<<SaltDict(-1), MovieDict(MaxStock)>>),
       JsonFile(<<Line("001A", -1), Line(UnknownId, 1)>>)>>,
     <<JsonFile(<<SaltDict(1), NoQuantityDict>>), JsonFile(<<Line("001A", 1)>>)>>,
     <<JsonFile(<<SaltDict(1), BookDict(MaxStock)>>),
       JsonFile(<<Line("001A", 1), Line("001A", 2)>>)>>,
     <<JsonFile(<<SaltDict(MaxStock)>>), CorruptFile>>,
     <<JsonFile(<<SaltDict(1), NoQuantityDict>>), MissingFile>>}

\* First runs: the constructor loads no product (the catalog file is missing,
\* unparsable or the empty list) and the start seeds the sample catalog.  The
\* cart file may hold lines all the same.
FirstRuns ==
    {<<MissingFile, MissingFile>>,
     <<CorruptFile, JsonFile(<<Line(UnknownId, 1), Line("002A", MaxQty)>>)>>,
     <<JsonFile(<<>>), JsonFile(<<Line("001A", 1)>>)>>}

LogFiles == {MissingLog, EmptyLog}

\* What the object answers about one product.
Avail(d, p) == IF p \in Keys(d) THEN Get(d, p).quantity_available ELSE 0
Reserved(its, p) == IF p \in Keys(its) THEN Get(its, p).quantity ELSE 0
Sums(d, its) == [p \in Keys(d) |-> Avail(d, p) + Reserved(its, p)]

Call(op, product_id, quantity, result) ==
    [op |-> op, product_id |-> product_id, quantity |-> quantity, result |-> result,
     value |-> 0, message |-> <<>>, found |-> <<>>]

\* The variables after a shell started over the files cf, kf, lf.  The start
\* is recorded as its constructor call, with how it found the two JSON files.
Started(im, cf, kf, lf) ==
    LET o == start(im, cf, kf, lf)
    IN  /\ impl' = im
        /\ alive' = ~o.raised
        /\ catalog' = o.catalog
        /\ items' = o.items
        /\ catFile' = o.catFile
        /\ cartFile' = o.cartFile
        /\ logFile' = o.logFile
        /\ last' = [Call("__init__", "", 0, IF o.raised THEN "KeyError" ELSE "None")
                    EXCEPT !.found = <<cf.state, kf.state>>]
        /\ at_load' = Sums(o.catalog, o.items)

StartedOver(installations) ==
    \E im \in {"cli", "gui"}, inst \in installations, lf \in LogFiles :
        LET o == start(im, inst[1], inst[2], lf)
        IN  /\ impl = im
            /\ alive = ~o.raised
            /\ catalog = o.catalog
            /\ items = o.items
            /\ catFile = o.catFile
            /\ cartFile = o.cartFile
            /\ logFile = o.logFile
            /\ last = [Call("__init__", "", 0, IF o.raised THEN "KeyError" ELSE "None")
                       EXCEPT !.found = <<inst[1].state, inst[2].state>>]
            /\ at_load = Sums(o.catalog, o.items)

\* A shell started over an installation, and over an installation or a first
\* run.
Init == StartedOver(Installations)
InitSample == StartedOver(Installations \cup FirstRuns)

\* A call that returns or raises without touching the object or the files.
Returns(call) ==
    /\ last' = call
    /\ UNCHANGED <<impl, alive, catalog, items, catFile, cartFile, logFile, at_load>>

\* The tail every successful mutation shares: both files rewritten from the
\* object, then one log row.
Saved(d, its, action, product_id, product_name, quantity, details) ==
    /\ catalog' = d
    /\ items' = its
    /\ catFile' = _save_catalog(d)
    /\ cartFile' = _save_cart_state(its)
    /\ logFile' = _log_transaction(logFile, action, product_id, product_name,
                                   quantity, details)
    /\ UNCHANGED <<impl, alive, at_load>>

\* The InventoryError message: the product's name and what is available.
insufficient_stock_message(product) ==
    <<"Insufficient stock for ", product.name, ". Available: ",
      product.quantity_available>>

\* The guards of the three mutations, one operator per condition of the code,
\* each after a faulty variant of it.
\* "if quantity <= 0" of add_item (the variant lets 0 through).
non_positive_lt(quantity) == quantity < 0
non_positive(quantity) == quantity <= 0

\* "if product.quantity_available < quantity" of add_item and "< diff" of
\* update_quantity (the variant also refuses to take the last unit).
insufficient_stock_le(product, quantity) == product.quantity_available <= quantity
insufficient_stock(product, quantity) == product.quantity_available < quantity

\* "if new_quantity < 0" of update_quantity (the variant lets -1 through).
negative_quantity_lt(new_quantity) == new_quantity < -1
negative_quantity(new_quantity) == new_quantity < 0

\* "if new_quantity == current_quantity" (the variant never short-circuits).
same_quantity_never(new_quantity, current_quantity) == FALSE
same_quantity(new_quantity, current_quantity) == new_quantity = current_quantity

\* "diff = new_quantity - current_quantity" (the variant reverses the sign).
quantity_diff_reversed(new_quantity, current_quantity) == current_quantity - new_quantity
quantity_diff(new_quantity, current_quantity) == new_quantity - current_quantity

(***************************************************************************)
(* ShoppingCart.add_item                                                   *)
(***************************************************************************)
\* A faulty variant of add_item: it takes the stock before it checks it.
add_item_checks_late(product_id, quantity) ==
    /\ alive
    /\ IF product_id \notin Keys(catalog)
       THEN Returns(Call("add_item", product_id, quantity, "False"))
       ELSE LET product == Get(catalog, product_id)
                taken == [product EXCEPT !.quantity_available = Max(0, @ - quantity)]
            IN  IF non_positive(quantity)
                THEN Returns(Call("add_item", product_id, quantity, "False"))
                ELSE IF insufficient_stock(product, quantity)
                THEN /\ catalog' = DictSet(catalog, product_id, taken)
                     /\ last' = [Call("add_item", product_id, quantity, "InventoryError")
                                 EXCEPT !.message = insufficient_stock_message(taken)]
                     /\ UNCHANGED <<impl, alive, items, catFile, cartFile, logFile,
                                    at_load>>
                ELSE /\ Saved(DictSet(catalog, product_id, taken),
                              IF product_id \in Keys(items)
                              THEN DictSet(items, product_id,
                                           [Get(items, product_id)
                                            EXCEPT !.quantity = @ + quantity])
                              ELSE DictSet(items, product_id,
                                           CartItem(product_id, quantity)),
                              "ADD", product_id, product.name, quantity, NoDetails)
                     /\ last' = Call("add_item", product_id, quantity, "True")

add_item(product_id, quantity) ==
    /\ alive
    /\ IF product_id \notin Keys(catalog)
       THEN Returns(Call("add_item", product_id, quantity, "False"))
       ELSE LET product == Get(catalog, product_id)
                dec == decrease_quantity(product, quantity)
            IN  IF non_positive(quantity)
                THEN Returns(Call("add_item", product_id, quantity, "False"))
                ELSE IF insufficient_stock(product, quantity)
                THEN Returns([Call("add_item", product_id, quantity, "InventoryError")
                              EXCEPT !.message = insufficient_stock_message(product)])
                ELSE IF impl = "gui" /\ ~dec.ok
                THEN Returns(Call("add_item", product_id, quantity, "False"))
                ELSE /\ Saved(DictSet(catalog, product_id, dec.product),
                              IF product_id \in Keys(items)
                              THEN DictSet(items, product_id,
                                           [Get(items, product_id)
                                            EXCEPT !.quantity = @ + quantity])
                              ELSE DictSet(items, product_id,
                                           CartItem(product_id, quantity)),
                              "ADD", product_id, product.name, quantity, NoDetails)
                     /\ last' = Call("add_item", product_id, quantity, "True")

(***************************************************************************)
(* ShoppingCart.remove_item                                                *)
(***************************************************************************)
remove_item(product_id) ==
    /\ alive
    /\ IF product_id \notin Keys(items)
       THEN Returns(Call("remove_item", product_id, 0, "False"))
       ELSE LET cart_item == Get(items, product_id)
                product == Get(catalog, product_id)
                inc == increase_quantity(product, cart_item.quantity)
            IN  IF inc.raised
                THEN Returns(Call("remove_item", product_id, 0, "ValueError"))
                ELSE /\ Saved(DictSet(catalog, product_id, inc.product),
                              DictDel(items, product_id),
                              "REMOVE", product_id, product.name, cart_item.quantity,
                              NoDetails)
                     /\ last' = Call("remove_item", product_id, 0, "True")

(***************************************************************************)
(* ShoppingCart.update_quantity (the console shell's class only)           *)
(***************************************************************************)
update_quantity(product_id, new_quantity) ==
    /\ alive
    /\ impl = "cli"
    /\ IF product_id \notin Keys(items)
       THEN Returns(Call("update_quantity", product_id, new_quantity, "False"))
       ELSE LET cart_item == Get(items, product_id)
                product == Get(catalog, product_id)
                current_quantity == cart_item.quantity
                diff == quantity_diff(new_quantity, current_quantity)
                dec == decrease_quantity(product, diff)
                inc == increase_quantity(product, -diff)
                moved == IF diff > 0 THEN dec.product ELSE inc.product
                set == DictSet(items, product_id,
                               [cart_item EXCEPT !.quantity = new_quantity])
            IN  IF negative_quantity(new_quantity)
                THEN Returns(Call("update_quantity", product_id, new_quantity, "False"))
                ELSE IF same_quantity(new_quantity, current_quantity)
                THEN Returns(Call("update_quantity", product_id, new_quantity, "True"))
                ELSE IF diff > 0 /\ insufficient_stock(product, diff)
                THEN Returns([Call("update_quantity", product_id, new_quantity,
                                   "InventoryError")
                              EXCEPT !.message = insufficient_stock_message(product)])
                ELSE IF diff <= 0 /\ inc.raised
                THEN Returns(Call("update_quantity", product_id, new_quantity, "ValueError"))
                ELSE /\ Saved(DictSet(catalog, product_id, moved),
                              IF new_quantity = 0 THEN DictDel(set, product_id) ELSE set,
                              "UPDATE", product_id, product.name, new_quantity,
                              PreviousQuantity(current_quantity))
                     /\ last' = Call("update_quantity", product_id, new_quantity, "True")

(***************************************************************************)
(* ShoppingCart.get_total                                                  *)
(***************************************************************************)
RECURSIVE total_of(_, _)
total_of(d, its) ==
    IF its = <<>> THEN 0
    ELSE calculate_subtotal(d, Head(its)) + total_of(d, Tail(its))

get_total ==
    /\ alive
    /\ Returns([Call("get_total", "", 0, "total") EXCEPT !.value = total_of(catalog, items)])

(***************************************************************************)
(* Checkout: choice 6 of main (console), ShoppingCartGUI.checkout (desktop,*)
(* where the user may answer no to the confirmation).                      *)
(***************************************************************************)
\* A faulty variant of checkout: it saves the catalog as well as the cart.
checkout_saves_catalog(response) ==
    /\ alive
    /\ impl = "cli" => response
    /\ LET total == total_of(catalog, items)
       IN  IF total > 0
           THEN IF response
                THEN /\ items' = <<>>
                     /\ cartFile' = _save_cart_state(<<>>)
                     /\ catFile' = _save_catalog(catalog)
                     /\ last' = [Call("checkout", "", 0, "Checkout Complete")
                                 EXCEPT !.value = total]
                     /\ UNCHANGED <<impl, alive, catalog, logFile, at_load>>
                ELSE Returns([Call("checkout", "", 0, "declined") EXCEPT !.value = total])
           ELSE Returns([Call("checkout", "", 0, "cart is empty") EXCEPT !.value = total])

checkout(response) ==
    /\ alive
    /\ impl = "cli" => response
    /\ LET total == total_of(catalog, items)
       IN  IF total > 0
           THEN IF response
                THEN /\ items' = <<>>
                     /\ cartFile' = _save_cart_state(<<>>)
                     /\ last' = [Call("checkout", "", 0, "Checkout Complete")
                                 EXCEPT !.value = total]
                     /\ UNCHANGED <<impl, alive, catalog, catFile, logFile, at_load>>
                ELSE Returns([Call("checkout", "", 0, "declined") EXCEPT !.value = total])
           ELSE Returns([Call("checkout", "", 0, "cart is empty") EXCEPT !.value = total])

(***************************************************************************)
(* The process ends and the shell is started again over the files.         *)
(***************************************************************************)
Restart == Started(impl, catFile, cartFile, logFile)

\* The calls of a session: a call is taken unless it would make the log longer
\* than the session's bound.
LogWithin(n) == Len(logFile'.rows) <= n

AddItem == \E p \in Ids, q \in Quantities : add_item(p, q) /\ LogWithin(MaxLog)
RemoveItem == \E p \in Ids : remove_item(p) /\ LogWithin(MaxLog)
UpdateQuantity ==
    \E p \in Ids, q \in Quantities : update_quantity(p, q) /\ LogWithin(MaxLog)
GetTotal == get_total
Checkout == \E response \in BOOLEAN : checkout(response)

\* The ledger alone: the three mutations and the total.
NextLedger == AddItem \/ RemoveItem \/ UpdateQuantity \/ GetTotal
SpecLedger == Init /\ [][NextLedger]_vars

\* A session over an installed catalog: the ledger, checkout and restarts.
Next ==
    \/ AddItem
    \/ RemoveItem
    \/ UpdateQuantity
    \/ GetTotal
    \/ Checkout
    \/ Restart
Spec == Init /\ [][Next]_vars

\* Sessions that may begin with a first run.  The seeded catalogs hold stock
\* for every call to go through, so the calls of these sessions move at most
\* one unit at a time.
SampleQuantities == 0 .. 1
AddItemSample ==
    \E p \in Ids, q \in SampleQuantities : add_item(p, q) /\ LogWithin(MaxLog)
UpdateQuantitySample ==
    \E p \in Ids, q \in SampleQuantities : update_quantity(p, q) /\ LogWithin(MaxLog)
NextSample ==
    \/ AddItemSample
    \/ RemoveItem
    \/ UpdateQuantitySample
    \/ GetTotal
    \/ Checkout
    \/ Restart
SpecSample == InitSample /\ [][NextSample]_vars

\* The scenario of the specification's section on testable properties: calls
\* for product 001A in quantities 5 and 10 over the seeded catalog, in sessions
\* that may write one record more.
ScenarioId == "001A"
ScenarioQuantities == {5, 10}
AddItemScenario ==
    \E q \in ScenarioQuantities : add_item(ScenarioId, q) /\ LogWithin(MaxLog + 1)
RemoveItemScenario == remove_item(ScenarioId) /\ LogWithin(MaxLog + 1)
UpdateQuantityScenario ==
    \E q \in ScenarioQuantities : update_quantity(ScenarioId, q) /\ LogWithin(MaxLog + 1)
NextScenario ==
    \/ AddItemScenario
    \/ UpdateQuantityScenario
    \/ RemoveItemScenario
    \/ GetTotal
    \/ Checkout
SpecScenario == InitSample /\ [][NextScenario]_vars

(***************************************************************************)
(* A process that stops inside a mutation.  The tail of a successful       *)
(* add_item, remove_item or update_quantity is four statements:            *)
(* _save_catalog(), _save_cart_state(), _log_transaction(...), return.     *)
(* Each save opens its file for writing, which empties it, and then writes *)
(* the JSON text, so a process that stops inside a save leaves a file that *)
(* does not parse.                                                         *)
(***************************************************************************)
StopPoints ==
    {"before _save_catalog", "in _save_catalog", "before _save_cart_state",
     "in _save_cart_state", "before _log_transaction", "before return"}
CatalogSaved(point) ==
    point \in {"before _save_cart_state", "in _save_cart_state",
               "before _log_transaction", "before return"}
CartSaved(point) == point \in {"before _log_transaction", "before return"}
Logged(point) == point = "before return"

\* A faulty variant of the tail: the record is appended before the files are
\* saved.
Stopped_logs_first(d, its, point, action, product_id, product_name, quantity, details) ==
    /\ alive' = FALSE
    /\ catalog' = <<>>
    /\ items' = <<>>
    /\ catFile' = IF CatalogSaved(point) THEN _save_catalog(d)
                  ELSE IF point = "in _save_catalog" THEN CorruptFile
                  ELSE catFile
    /\ cartFile' = IF CartSaved(point) THEN _save_cart_state(its)
                   ELSE IF point = "in _save_cart_state" THEN CorruptFile
                   ELSE cartFile
    /\ logFile' = _log_transaction(logFile, action, product_id, product_name,
                                   quantity, details)
    /\ UNCHANGED <<impl, at_load>>

\* The tail of a successful mutation in a process that stops at the point: the
\* object is gone, and the files hold what the statements before the point
\* wrote.
Stopped(d, its, point, action, product_id, product_name, quantity, details) ==
    /\ alive' = FALSE
    /\ catalog' = <<>>
    /\ items' = <<>>
    /\ catFile' = IF CatalogSaved(point) THEN _save_catalog(d)
                  ELSE IF point = "in _save_catalog" THEN CorruptFile
                  ELSE catFile
    /\ cartFile' = IF CartSaved(point) THEN _save_cart_state(its)
                   ELSE IF point = "in _save_cart_state" THEN CorruptFile
                   ELSE cartFile
    /\ logFile' = IF Logged(point)
                  THEN _log_transaction(logFile, action, product_id, product_name,
                                        quantity, details)
                  ELSE logFile
    /\ UNCHANGED <<impl, at_load>>

\* add_item in a process that stops in the tail of the call.
add_item_stopped(product_id, quantity, point) ==
    /\ alive
    /\ product_id \in Keys(catalog)
    /\ LET product == Get(catalog, product_id)
           dec == decrease_quantity(product, quantity)
       IN  /\ ~non_positive(quantity)
           /\ ~insufficient_stock(product, quantity)
           /\ ~(impl = "gui" /\ ~dec.ok)
           /\ Stopped(DictSet(catalog, product_id, dec.product),
                      IF product_id \in Keys(items)
                      THEN DictSet(items, product_id,
                                   [Get(items, product_id)
                                    EXCEPT !.quantity = @ + quantity])
                      ELSE DictSet(items, product_id, CartItem(product_id, quantity)),
                      point, "ADD", product_id, product.name, quantity, NoDetails)
           /\ last' = Call("add_item", product_id, quantity, point)

\* remove_item in a process that stops in the tail of the call.
remove_item_stopped(product_id, point) ==
    /\ alive
    /\ product_id \in Keys(items)
    /\ LET cart_item == Get(items, product_id)
           product == Get(catalog, product_id)
           inc == increase_quantity(product, cart_item.quantity)
       IN  /\ ~inc.raised
           /\ Stopped(DictSet(catalog, product_id, inc.product),
                      DictDel(items, product_id),
                      point, "REMOVE", product_id, product.name, cart_item.quantity,
                      NoDetails)
           /\ last' = Call("remove_item", product_id, 0, point)

\* update_quantity in a process that stops in the tail of the call.
update_quantity_stopped(product_id, new_quantity, point) ==
    /\ alive
    /\ impl = "cli"
    /\ product_id \in Keys(items)
    /\ LET cart_item == Get(items, product_id)
           product == Get(catalog, product_id)
           current_quantity == cart_item.quantity
           diff == quantity_diff(new_quantity, current_quantity)
           dec == decrease_quantity(product, diff)
           inc == increase_quantity(product, -diff)
           moved == IF diff > 0 THEN dec.product ELSE inc.product
           set == DictSet(items, product_id,
                          [cart_item EXCEPT !.quantity = new_quantity])
       IN  /\ ~negative_quantity(new_quantity)
           /\ ~same_quantity(new_quantity, current_quantity)
           /\ ~(diff > 0 /\ insufficient_stock(product, diff))
           /\ ~(diff <= 0 /\ inc.raised)
           /\ Stopped(DictSet(catalog, product_id, moved),
                      IF new_quantity = 0 THEN DictDel(set, product_id) ELSE set,
                      point, "UPDATE", product_id, product.name, new_quantity,
                      PreviousQuantity(current_quantity))
           /\ last' = Call("update_quantity", product_id, new_quantity, point)

AddItemStopped ==
    \E p \in Ids, q \in Quantities, point \in StopPoints :
        add_item_stopped(p, q, point) /\ LogWithin(MaxLog)
RemoveItemStopped ==
    \E p \in Ids, point \in StopPoints :
        remove_item_stopped(p, point) /\ LogWithin(MaxLog)
UpdateQuantityStopped ==
    \E p \in Ids, q \in Quantities, point \in StopPoints :
        update_quantity_stopped(p, q, point) /\ LogWithin(MaxLog)

\* Sessions of the ledger in a process that may stop inside a mutation.
NextCrash ==
    \/ AddItem
    \/ RemoveItem
    \/ UpdateQuantity
    \/ AddItemStopped
    \/ RemoveItemStopped
    \/ UpdateQuantityStopped
SpecCrash == Init /\ [][NextCrash]_vars

\* Sessions that begin with an empty cart (the log of a first state holds no
\* record): the three mutations and checkout.
InitAudit == Init /\ items = <<>>
NextAudit ==
    \/ AddItem
    \/ RemoveItem
    \/ UpdateQuantity
    \/ Checkout
SpecAudit == InitAudit /\ [][NextAudit]_vars

(***************************************************************************)
(* Properties.                                                             *)
(***************************************************************************)
Sum(d, its, p) == Avail(d, p) + Reserved(its, p)

\* The step left the object's catalog and cart, both JSON files and the log
\* as they were.
Untouched ==
    /\ catalog' = catalog
    /\ items' = items
    /\ catFile' = catFile
    /\ cartFile' = cartFile
    /\ logFile' = logFile

\* The step changed no product and no cart line other than p's.
OthersUntouched(p) ==
    /\ Keys(catalog') = Keys(catalog)
    /\ \A o \in Keys(catalog) \ {p} : Get(catalog', o) = Get(catalog, o)
    /\ Keys(items') \ {p} = Keys(items) \ {p}
    /\ \A o \in Keys(items) \ {p} : Get(items', o) = Get(items, o)

\* C1: under any sequence of add_item / remove_item / update_quantity calls
\* (accepted, refused with False or refused with InventoryError) every
\* product's available quantity plus its reserved quantity (0 without a cart
\* line) is what it was right after load.
C1_ConservationSinceLoad ==
    \A p \in Keys(catalog) : Sum(catalog, items, p) = at_load[p]

\* Two mutations went through, stock is reserved, and a call was refused.
C1_Witness ==
    /\ Len(logFile.rows) = 2
    /\ logFile.rows[1].action = "ADD"
    /\ logFile.rows[2].action = "UPDATE"
    /\ last.result = "InventoryError"
    /\ \E p \in Keys(items) :
          /\ Reserved(items, p) > 0
          /\ Avail(catalog, p) < at_load[p]

\* C2 as claimed: no operation, Checkout included, changes any product's sum
\* of available and reserved quantity.
C2_SumUnchangedByEveryOperation ==
    [][last'.op \in {"add_item", "remove_item", "update_quantity", "checkout",
                     "get_total"}
         => \A p \in Keys(catalog) :
               Sum(catalog', items', p) = Sum(catalog, items, p)]_vars

\* C2 as it holds: add_item, remove_item, update_quantity and get_total leave
\* every product's sum unchanged; a checkout that goes through (grand total
\* > 0) leaves every available quantity unchanged and empties the cart, so each
\* sum drops by the product's reserved quantity; any other checkout changes
\* nothing.
C2_SumChangedOnlyByCheckout ==
    [][/\ last'.op \in {"add_item", "remove_item", "update_quantity", "get_total"}
          => \A p \in Keys(catalog) :
                Sum(catalog', items', p) = Sum(catalog, items, p)
       /\ last'.op = "checkout"
          => IF last'.result = "Checkout Complete"
             THEN /\ total_of(catalog, items) > 0
                  /\ \A p \in Keys(catalog) :
                        /\ Avail(catalog', p) = Avail(catalog, p)
                        /\ Reserved(items', p) = 0
                        /\ Sum(catalog', items', p)
                             = Sum(catalog, items, p) - Reserved(items, p)
             ELSE Untouched]_vars

\* A checkout went through after stock had been reserved by add_item: the cart
\* is empty and the reserved units are in neither place.
C2_Witness ==
    /\ last.op = "checkout"
    /\ last.result = "Checkout Complete"
    /\ last.value > 0
    /\ items = <<>>
    /\ logFile.rows # <<>>
    /\ \E p \in Keys(catalog) : Sum(catalog, items, p) < at_load[p]

\* C3: a call that raises InventoryError leaves every product, every cart
\* line, both files and the log as they were, and add_item(p, available + 1)
\* is such a call.
C3_InventoryErrorChangesNothing ==
    [][/\ last'.result = "InventoryError"
          => /\ last'.op \in {"add_item", "update_quantity"}
             /\ Untouched
       /\ (/\ last'.op = "add_item"
           /\ last'.product_id \in Keys(catalog)
           /\ last'.quantity = Avail(catalog, last'.product_id) + 1)
          => last'.result = "InventoryError"]_vars

\* add_item(p, available + 1) was refused for a product with a cart line, after
\* a mutation had been saved and logged.
C3_Witness ==
    /\ last.op = "add_item"
    /\ last.result = "InventoryError"
    /\ last.product_id \in Keys(items)
    /\ last.quantity = Avail(catalog, last.product_id) + 1
    /\ Reserved(items, last.product_id) > 0
    /\ logFile.rows # <<>>

\* C4: add_item(p, q) returns False and changes neither catalog, cart, files
\* nor log whenever p is not in the catalog or q <= 0; an unknown p returns
\* False whatever q is.
C4_AddRejectsUnknownOrNonPositive ==
    [][(/\ last'.op = "add_item"
        /\ \/ last'.product_id \notin Keys(catalog)
           \/ last'.quantity <= 0)
         => /\ last'.result = "False"
            /\ Untouched]_vars

\* An unknown product was asked for in a quantity above every product's stock,
\* and the call returned False.
C4_Witness ==
    /\ last.op = "add_item"
    /\ last.result = "False"
    /\ last.product_id \notin Keys(catalog)
    /\ catalog # <<>>
    /\ \A p \in Keys(catalog) : last.quantity > Avail(catalog, p)

\* C5: add_item(p, q) raises InventoryError exactly when p is in the catalog,
\* q > 0 and available(p) < q; update_quantity(p, n) raises it exactly when p
\* has a cart line, n >= 0 and n - current > available(p); remove_item never
\* raises it.
C5_InventoryErrorExactlyOnShortfall ==
    [][/\ last'.op = "add_item"
          => (last'.result = "InventoryError"
              <=> /\ last'.product_id \in Keys(catalog)
                  /\ last'.quantity > 0
                  /\ Avail(catalog, last'.product_id) < last'.quantity)
       /\ last'.op = "update_quantity"
          => (last'.result = "InventoryError"
              <=> /\ last'.product_id \in Keys(items)
                  /\ last'.quantity >= 0
                  /\ last'.quantity - Reserved(items, last'.product_id)
                       > Avail(catalog, last'.product_id))
       /\ last'.op = "remove_item" => last'.result # "InventoryError"]_vars

\* update_quantity asked for more than the line holds plus what is available.
C5_Witness ==
    /\ last.op = "update_quantity"
    /\ last.result = "InventoryError"
    /\ last.product_id \in Keys(items)
    /\ Avail(catalog, last.product_id) > 0
    /\ last.quantity - Reserved(items, last.product_id)
         > Avail(catalog, last.product_id)

\* C6: add_item(p, q) with p known and 0 < q <= available(p) succeeds; a
\* successful add_item(p, q) lowers available(p) by exactly q, raises the
\* quantity of p's cart line by exactly q or creates the line with quantity q,
\* and changes no other product and no other line.
C6_AddMovesExactlyQ ==
    [][last'.op = "add_item"
         => LET p == last'.product_id
                q == last'.quantity
            IN  /\ (p \in Keys(catalog) /\ 0 < q /\ q <= Avail(catalog, p))
                     <=> last'.result = "True"
                /\ last'.result = "True"
                     => /\ Avail(catalog', p) = Avail(catalog, p) - q
                        /\ p \in Keys(items')
                        /\ Get(items', p).quantity
                             = IF p \in Keys(items) THEN Get(items, p).quantity + q
                               ELSE q
                        /\ OthersUntouched(p)]_vars

\* add_item added two or more units to a line that already held some, while
\* another product has a line of its own.
C6_Witness ==
    /\ last.op = "add_item"
    /\ last.result = "True"
    /\ last.quantity >= 2
    /\ Reserved(items, last.product_id) > last.quantity
    /\ Keys(items) # {last.product_id}

\* C7 as claimed: remove_item(p) returns False and changes nothing when p has
\* no cart line; when p has a line of quantity k it returns True, raises
\* available(p) by exactly k, deletes the line and changes no other product or
\* line.
C7_RemoveReturnsWholeLine ==
    [][last'.op = "remove_item"
         => LET p == last'.product_id
            IN  IF p \notin Keys(items)
                THEN last'.result = "False" /\ Untouched
                ELSE /\ last'.result = "True"
                     /\ Avail(catalog', p) = Avail(catalog, p) + Reserved(items, p)
                     /\ p \notin Keys(items')
                     /\ OthersUntouched(p)]_vars

\* C8: update_quantity(p, n) returns False and changes neither catalog, cart,
\* files nor log whenever p has no cart line or n < 0.
C8_UpdateRejectsNoLineOrNegative ==
    [][(/\ last'.op = "update_quantity"
        /\ \/ last'.product_id \notin Keys(items)
           \/ last'.quantity < 0)
         => /\ last'.result = "False"
            /\ Untouched]_vars

\* A negative quantity was refused for a product that has a cart line.
C8_Witness ==
    /\ last.op = "update_quantity"
    /\ last.result = "False"
    /\ last.product_id \in Keys(items)
    /\ last.quantity < 0
    /\ Reserved(items, last.product_id) > 0

\* C9: update_quantity(p, n) with n the line's current quantity returns True
\* and changes nothing: catalog and cart are as before, neither file is
\* rewritten and the log gets no record.
C9_UpdateToSameQuantityIsNoOp ==
    [][(/\ last'.op = "update_quantity"
        /\ last'.product_id \in Keys(items)
        /\ last'.quantity = Get(items, last'.product_id).quantity)
         => /\ last'.result = "True"
            /\ Untouched]_vars

\* update_quantity returned True before any mutation, on a line loaded from a
\* cart file, while neither file holds what a save would have written.
C9_Witness ==
    /\ last.op = "update_quantity"
    /\ last.result = "True"
    /\ last.product_id \in Keys(items)
    /\ last.quantity = Get(items, last.product_id).quantity
    /\ logFile.rows = <<>>
    /\ catFile # _save_catalog(catalog)
    /\ cartFile # _save_cart_state(items)

\* C10: a successful update_quantity(p, n) with n different from the current
\* quantity c lowers available(p) by n - c when n > c and raises it by c - n
\* when n < c, whatever the stock is; afterwards p's reserved quantity is n,
\* and no other product or line has changed.  A decrease (0 <= n < c) always
\* succeeds.
C10_UpdateMovesTheDifference ==
    [][(/\ last'.op = "update_quantity"
        /\ last'.product_id \in Keys(items)
        /\ last'.quantity # Get(items, last'.product_id).quantity)
         => LET p == last'.product_id
                n == last'.quantity
                c == Get(items, p).quantity
            IN  /\ (0 <= n /\ n < c) => last'.result = "True"
                /\ last'.result = "True"
                     => /\ Avail(catalog', p) = Avail(catalog, p) - (n - c)
                        /\ Reserved(items', p) = n
                        /\ OthersUntouched(p)]_vars

\* A line was raised by update_quantity to two or more units with the previous
\* quantity on record, while another product has a line of its own.
C10_Witness ==
    /\ last.op = "update_quantity"
    /\ last.result = "True"
    /\ logFile.rows # <<>>
    /\ LET row == logFile.rows[Len(logFile.rows)]
       IN  /\ row.action = "UPDATE"
           /\ row.product_id = last.product_id
           /\ row.details # PreviousQuantity(last.quantity)
           /\ row.details[2] > 0
           /\ row.details[2] < last.quantity
    /\ Reserved(items, last.product_id) = last.quantity
    /\ Keys(items) # {last.product_id}

\* C11 as claimed: after update_quantity(p, 0) on a product p that has a cart
\* line, p has no cart line, p is still in the catalog, and available(p) is its
\* value before the call plus the line's former quantity.
C11_UpdateToZeroRemovesLine ==
    [][(/\ last'.op = "update_quantity"
        /\ last'.quantity = 0
        /\ last'.product_id \in Keys(items))
         => LET p == last'.product_id
            IN  /\ p \notin Keys(items')
                /\ p \in Keys(catalog')
                /\ Avail(catalog', p) = Avail(catalog, p) + Reserved(items, p)]_vars

\* C12: a checkout with grand total > 0 deletes every cart line, writes the
\* empty list to the cart file, leaves every product's available quantity, the
\* catalog file and the log as they were (in the desktop shell, unless the user
\* answers no, and then nothing changes); a checkout with grand total 0
\* changes nothing and reports "cart is empty".
C12_CheckoutClearsCartOnly ==
    [][last'.op = "checkout"
         => IF total_of(catalog, items) > 0
            THEN IF last'.result = "declined"
                 THEN impl = "gui" /\ Untouched
                 ELSE /\ last'.result = "Checkout Complete"
                      /\ items' = <<>>
                      /\ cartFile' = JsonFile(<<>>)
                      /\ catalog' = catalog
                      /\ catFile' = catFile
                      /\ logFile' = logFile
            ELSE /\ last'.result = "cart is empty"
                 /\ Untouched]_vars

\* A checkout went through while stock was reserved and the catalog file did
\* not hold what a save of the catalog would write: the file was left alone.
C12_Witness ==
    /\ last.op = "checkout"
    /\ last.result = "Checkout Complete"
    /\ last.value > 0
    /\ items = <<>>
    /\ cartFile = JsonFile(<<>>)
    /\ catalog # <<>>
    /\ catFile # _save_catalog(catalog)

\* C13 as claimed: in every reachable state, the state right after the cart is
\* loaded from its file included, every cart line has a quantity > 0.
C13_EveryLinePositive ==
    \A i \in DOMAIN items : items[i].quantity > 0

\* C14: in every reachable state (after load from any catalog file and after
\* any sequence of add_item / remove_item / update_quantity / checkout calls)
\* every product's available quantity is an integer >= 0.
C14_AvailableNeverNegative ==
    \A i \in DOMAIN catalog : catalog[i].quantity_available \in Nat

\* A product whose catalog file entry holds a negative quantity is in the
\* catalog with nothing available, and an add_item for it was refused.
C14_Witness ==
    /\ last.op = "add_item"
    /\ last.result = "InventoryError"
    /\ Avail(catalog, last.product_id) = 0
    /\ catFile.state = "ok"
    /\ \E i \in DOMAIN catFile.data :
          /\ catFile.data[i].product_id = last.product_id
          /\ catFile.data[i].quantity_available < 0

\* C15: in every reachable state, sample-catalog seeding included, every
\* product with a cart line is in the catalog: cart load drops the pairs whose
\* product is not in the loaded catalog and no operation creates such a line.
C15_CartWithinCatalog ==
    Keys(items) \subseteq Keys(catalog)

\* After seeding and a restart, the cart holds a line read from a cart file
\* that also names a product the seeded catalog does not have.
C15_Witness ==
    /\ last.op = "__init__"
    /\ Len(catalog) > Cardinality(ProductIds)
    /\ items # <<>>
    /\ cartFile.state = "ok"
    /\ \E i \in DOMAIN cartFile.data :
          cartFile.data[i].product_id \notin Keys(catalog)

\* C16 as claimed: when the catalog file is a list, construction does not
\* fail, and the loaded catalog holds exactly the products of the records
\* that have every required field.
C16_CatalogLoadSkipsMalformedRecords ==
    (last.op = "__init__" /\ catFile.state = "ok")
      => /\ alive
         /\ Keys(catalog)
              = {catFile.data[i].product_id :
                   i \in {j \in DOMAIN catFile.data : ~from_dict(catFile.data[j]).raised}}

\* C17 as claimed: a constructor that finds the catalog file or the cart file
\* missing or unparsable lets no error out; with such a catalog file it goes on
\* from an empty catalog, which shows in the sample catalog the start then
\* seeds and saves (a catalog that holds a product is never seeded), and with
\* such a cart file the cart is empty.
C17_MissingOrUnparsableFileLoadsEmpty ==
    last.op = "__init__"
      => /\ last.found[1] \in {"missing", "corrupt"}
              => /\ alive
                 /\ last.result = "None"
                 /\ catalog = by_product_id(IF impl = "cli" THEN sample_products_cli
                                            ELSE sample_products_gui, <<>>)
                 /\ catFile = _save_catalog(catalog)
         /\ last.found[2] \in {"missing", "corrupt"}
              => /\ alive
                 /\ last.result = "None"
                 /\ items = <<>>

\* C18: in every reachable state, saving the catalog and the cart and loading
\* them again gives the same set of product identifiers, the same price and
\* available quantity for each product, the same set of cart lines and the
\* same reserved quantity for each line.
C18_SaveThenLoadRoundTrip ==
    alive
      => LET cf == _save_catalog(catalog)
             kf == _save_cart_state(items)
             c == IF impl = "cli" THEN _load_catalog_cli(cf) ELSE _load_catalog_gui(cf)
             its == IF impl = "cli" THEN _load_cart_state_cli(kf, c.catalog)
                    ELSE _load_cart_state_gui(kf, c.catalog)
         IN  /\ ~c.raised
             /\ Keys(c.catalog) = Keys(catalog)
             /\ \A p \in Keys(catalog) :
                   /\ Get(c.catalog, p).price = Get(catalog, p).price
                   /\ Avail(c.catalog, p) = Avail(catalog, p)
             /\ Keys(its) = Keys(items)
             /\ \A p \in Keys(items) : Reserved(its, p) = Reserved(items, p)

\* A constructor loaded what a mutation had saved: two cart lines, one of them
\* of two or more units, and the files hold what a save of the object writes.
C18_Witness ==
    /\ last.op = "__init__"
    /\ alive
    /\ logFile.rows # <<>>
    /\ Len(items) = 2
    /\ \E p \in Keys(items) : Reserved(items, p) >= 2
    /\ catFile = _save_catalog(catalog)
    /\ cartFile = _save_cart_state(items)

\* C19: an add_item, remove_item or update_quantity call that succeeds and
\* changes the state leaves in the catalog file and in the cart file what the
\* object holds after the call, and appends exactly one record to the log; a
\* call that returns False, raises InventoryError or is the update to the same
\* quantity rewrites neither file and appends no record.
C19_SavedAndLoggedExactlyOnSuccess ==
    [][last'.op \in {"add_item", "remove_item", "update_quantity"}
         => LET same == /\ last'.op = "update_quantity"
                        /\ last'.product_id \in Keys(items)
                        /\ last'.quantity = Reserved(items, last'.product_id)
            IN  /\ (last'.result = "True" /\ ~same)
                     => /\ <<catalog', items'>> # <<catalog, items>>
                        /\ catFile' = _save_catalog(catalog')
                        /\ cartFile' = _save_cart_state(items')
                        /\ Len(logFile'.rows) = Len(logFile.rows) + 1
                        /\ SubSeq(logFile'.rows, 1, Len(logFile.rows)) = logFile.rows
                /\ (last'.result \in {"False", "InventoryError"} \/ same)
                     => /\ catFile' = catFile
                        /\ cartFile' = cartFile
                        /\ logFile' = logFile]_vars

\* The first mutation of a session whose catalog file named one product twice
\* went through: the file now holds the one product of the object, the cart
\* file the object's cart, and the log one record.
C19_Witness ==
    /\ last.op \in {"add_item", "remove_item", "update_quantity"}
    /\ last.result = "True"
    /\ Len(logFile.rows) = 1
    /\ Len(catalog) = 1
    /\ catalog[1].cls = "Product"
    /\ catFile = _save_catalog(catalog)
    /\ cartFile = _save_cart_state(items)

\* C20: a successful add_item appends the record ADD with the product's id
\* and name, the quantity of that call and no detail; a successful remove_item
\* appends REMOVE with the whole quantity of the removed line; a successful
\* update_quantity that changes the quantity appends UPDATE with the new
\* quantity and the detail "Previous quantity: <old>", also when the new
\* quantity is 0.
C20_RecordOfEachMutation ==
    [][(/\ last'.op \in {"add_item", "remove_item", "update_quantity"}
        /\ last'.result = "True"
        /\ logFile' # logFile)
         => LET p == last'.product_id
                row == logFile'.rows[Len(logFile'.rows)]
                old == Reserved(items, p)
            IN  /\ row.product_id = p
                /\ row.product_name = Get(catalog, p).name
                /\ last'.op = "add_item"
                     => /\ row.action = "ADD"
                        /\ row.quantity = last'.quantity
                        /\ row.details = <<>>
                /\ last'.op = "remove_item"
                     => /\ row.action = "REMOVE"
                        /\ row.quantity = old
                        /\ row.details = <<>>
                /\ last'.op = "update_quantity"
                     => /\ row.action = "UPDATE"
                        /\ row.quantity = last'.quantity
                        /\ row.details = <<"Previous quantity: ", old>>]_vars

\* One unit was added to a line that held one already, and the line was then
\* updated to zero: the log holds ADD with quantity 1 and UPDATE with quantity
\* 0 and previous quantity 2, and the line is gone.
C20_Witness ==
    /\ last.op = "update_quantity"
    /\ last.result = "True"
    /\ last.quantity = 0
    /\ last.product_id \notin Keys(items)
    /\ Len(logFile.rows) = 2
    /\ logFile.rows[1].action = "ADD"
    /\ logFile.rows[1].product_id = last.product_id
    /\ logFile.rows[1].quantity = 1
    /\ logFile.rows[2].action = "UPDATE"
    /\ logFile.rows[2].quantity = 0
    /\ logFile.rows[2].details = <<"Previous quantity: ", 2>>

\* C21: the log is append-only across operations and restarts: every step
\* leaves the records the log holds in place and unchanged, the log never gets
\* shorter, a log that has its header keeps it, and the header is written only
\* by a constructor that finds the log without records, so that the log of a
\* constructed cart has it.
C21_LogAppendOnly ==
    /\ [](alive => (logFile.exists /\ logFile.header))
    /\ [][/\ Len(logFile'.rows) >= Len(logFile.rows)
          /\ SubSeq(logFile'.rows, 1, Len(logFile.rows)) = logFile.rows
          /\ logFile.exists => logFile'.exists
          /\ logFile.header => logFile'.header
          /\ (logFile'.header /\ ~logFile.header)
               => (last'.op = "__init__" /\ logFile.rows = <<>>)]_vars

\* A constructor found a log with its header and as many records as a session
\* writes, a REMOVE after an ADD, and left them as they were.
C21_Witness ==
    /\ last.op = "__init__"
    /\ alive
    /\ logFile.header
    /\ Len(logFile.rows) = MaxLog
    /\ logFile.rows[1].action = "ADD"
    /\ logFile.rows[MaxLog].action = "REMOVE"

\* C22: from a catalog that holds product 001A at price 28 with 100 available
\* and an empty cart, add_item(001A, 10) gives available 90 and total 280;
\* from there update_quantity(001A, 5) gives available 95 and total 140; from
\* there remove_item(001A) gives available 100, an empty cart and total 0; and
\* from there a checkout reports "cart is empty" and changes nothing.
C22_ConcreteScenario ==
    [][LET p == ScenarioId
           priced == p \in Keys(catalog) /\ Get(catalog, p).price = 28
           holds(a, its) == priced /\ Avail(catalog, p) = a /\ items = its
           called(op, q) == /\ last'.op = op
                            /\ last'.product_id = p
                            /\ last'.quantity = q
       IN  /\ (holds(100, <<>>) /\ called("add_item", 10))
                => /\ last'.result = "True"
                   /\ Avail(catalog', p) = 90
                   /\ items' = <<[product_id |-> p, quantity |-> 10]>>
                   /\ total_of(catalog', items') = 280
           /\ (holds(90, <<[product_id |-> p, quantity |-> 10]>>)
               /\ called("update_quantity", 5))
                => /\ last'.result = "True"
                   /\ Avail(catalog', p) = 95
                   /\ items' = <<[product_id |-> p, quantity |-> 5]>>
                   /\ total_of(catalog', items') = 140
           /\ (holds(95, <<[product_id |-> p, quantity |-> 5]>>)
               /\ called("remove_item", 0))
                => /\ last'.result = "True"
                   /\ Avail(catalog', p) = 100
                   /\ items' = <<>>
                   /\ total_of(catalog', items') = 0
           /\ (holds(100, <<>>) /\ last'.op = "checkout")
                => /\ last'.result = "cart is empty"
                   /\ Untouched]_vars

\* The scenario has run to its end over the seeded catalog: the log holds its
\* three records, 100 units are available again, the cart is empty and the
\* checkout reported "cart is empty".
C22_Witness ==
    /\ last.op = "checkout"
    /\ last.result = "cart is empty"
    /\ items = <<>>
    /\ Avail(catalog, ScenarioId) = 100
    /\ Get(catalog, ScenarioId).price = 28
    /\ Len(logFile.rows) = 3
    /\ logFile.rows[1].action = "ADD"
    /\ logFile.rows[1].quantity = 10
    /\ logFile.rows[2].action = "UPDATE"
    /\ logFile.rows[2].quantity = 5
    /\ logFile.rows[2].details = <<"Previous quantity: ", 10>>
    /\ logFile.rows[3].action = "REMOVE"
    /\ logFile.rows[3].quantity = 5

\* C23 as claimed: after an add_item, remove_item, update_quantity or checkout
\* call, whatever the calls before it, a new cart manager constructed over the
\* files as they are holds the same catalog (identifiers, prices, available
\* quantities) and the same cart (lines and reserved quantities) as the one
\* discarded.
C23_RestartReproducesState ==
    (alive /\ last.op \in {"add_item", "remove_item", "update_quantity", "checkout"})
      => LET o == __init__(impl, catFile, cartFile, logFile)
         IN  /\ ~o.raised
             /\ Keys(o.catalog) = Keys(catalog)
             /\ \A p \in Keys(catalog) :
                   /\ Get(o.catalog, p).price = Get(catalog, p).price
                   /\ Avail(o.catalog, p) = Avail(catalog, p)
             /\ Keys(o.items) = Keys(items)
             /\ \A p \in Keys(items) : Reserved(o.items, p) = Reserved(items, p)

\* C24 as claimed: a checkout is the "cart is empty" no-op exactly when the
\* cart has no lines; whenever the cart holds a line, lines of products priced
\* 0 included, a checkout (that the user does not decline) succeeds and leaves
\* the cart empty.
C24_CheckoutNoOpOnlyWithoutLines ==
    [][last'.op = "checkout"
         => /\ last'.result = "cart is empty" <=> items = <<>>
            /\ (items # <<>> /\ last'.result # "declined")
                 => /\ last'.result = "Checkout Complete"
                    /\ items' = <<>>]_vars

\* C25 as claimed, for the state right after construction: over the same
\* catalog file and cart file, the cart manager of the console shell and the
\* one of the desktop shell are both constructed, and hold the same catalog
\* and the same cart.
C25_ShellsAgreeAfterConstruction ==
    LET cli == __init__("cli", catFile, cartFile, logFile)
        gui == __init__("gui", catFile, cartFile, logFile)
    IN  /\ cli.raised = gui.raised
        /\ cli.catalog = gui.catalog
        /\ cli.items = gui.items

\* C29 as claimed: remove_item never ends with an exception: it returns True
\* when the product has a cart line and False when it has none, whatever
\* quantities the cart file held.
C29_RemoveNeverRaises ==
    [][last'.op = "remove_item"
         => /\ last'.result \in {"True", "False"}
            /\ last'.result = "True" <=> last'.product_id \in Keys(items)]_vars

\* C26 as claimed: when the process stops at any point inside a successful
\* add_item, remove_item or update_quantity and a new cart manager is then
\* constructed over the files, available + reserved of every product in the
\* reloaded state is the sum that held before the stopped call.
C26_ConservationSurvivesInterruption ==
    (~alive /\ last.result \in StopPoints)
      => LET o == __init__(impl, catFile, cartFile, logFile)
         IN  /\ ~o.raised
             /\ \A p \in DOMAIN at_load : Sum(o.catalog, o.items, p) = at_load[p]

\* What a successful mutation moves from the stock of its product to the cart
\* line (negative when units go back), read from the call the step made.
Moved ==
    IF last'.op = "add_item" THEN last'.quantity
    ELSE IF last'.op = "remove_item" THEN 0 - Reserved(items, last'.product_id)
    ELSE last'.quantity - Reserved(items, last'.product_id)

\* The catalog file, and the cart file, after the step hold the effect of the
\* mutation the step made.
InCatalogFile ==
    /\ catFile'.state = "ok"
    /\ Avail(__init__(impl, catFile', cartFile', logFile').catalog, last'.product_id)
         = Avail(catalog, last'.product_id) - Moved
InCartFile ==
    /\ cartFile'.state = "ok"
    /\ Reserved(__init__(impl, catFile', cartFile', logFile').items, last'.product_id)
         = Reserved(items, last'.product_id) + Moved

\* C27: within add_item, remove_item and update_quantity the catalog file is
\* written before the cart file and the log record is appended after both: a
\* step that touched the cart file, whether the call returned or the process
\* stopped inside it, left the call's effect in the catalog file, and a step
\* that appended a record left it in both files; a process that stops before
\* _log_transaction leaves the log as it was.
C27_FilesBeforeRecord ==
    [][(last'.op \in {"add_item", "remove_item", "update_quantity"}
          /\ (last'.result = "True" \/ last'.result \in StopPoints))
         => /\ cartFile' # cartFile => InCatalogFile
            /\ Len(logFile'.rows) > Len(logFile.rows) => (InCatalogFile /\ InCartFile)
            /\ (last'.result \in StopPoints /\ ~Logged(last'.result))
                 => logFile' = logFile]_vars

\* An update_quantity stopped after _log_transaction and before it returned:
\* the log ends with its UPDATE record and the cart file holds the line at the
\* new quantity.
C27_Witness ==
    /\ ~alive
    /\ last.op = "update_quantity"
    /\ last.result = "before return"
    /\ Len(logFile.rows) = MaxLog
    /\ logFile.rows[MaxLog].action = "UPDATE"
    /\ logFile.rows[MaxLog].quantity = last.quantity
    /\ cartFile.state = "ok"
    /\ \E i \in DOMAIN cartFile.data :
          /\ cartFile.data[i].product_id = last.product_id
          /\ cartFile.data[i].quantity = last.quantity

\* The cart a reader of the log reconstructs: ADD adds its quantity to the
\* product's line, UPDATE sets the line to its quantity, REMOVE deletes it.
RECURSIVE Replay(_, _)
Replay(rows, acc) ==
    IF rows = <<>> THEN acc
    ELSE LET r == Head(rows)
         IN  Replay(Tail(rows),
                    [acc EXCEPT ![r.product_id] =
                        IF r.action = "ADD" THEN @ + r.quantity
                        ELSE IF r.action = "UPDATE" THEN r.quantity
                        ELSE 0])

\* C28 as claimed: in a session that began with an empty cart and an empty log,
\* after any add_item / remove_item / update_quantity / checkout calls the log
\* replayed in order gives the reserved quantity of every product in the cart.
C28_LogReplayGivesCart ==
    alive => \A p \in Ids :
                Replay(logFile.rows, [q \in Ids |-> 0])[p] = Reserved(items, p)

====
